---- MODULE Spec2Model ----
(***************************************************************************)
(* typed_app: the Matrix record (models.py) and the matrix functions       *)
(* (functions.py), driven by a caller that builds grids, constructs        *)
(* matrices from them and calls the operations.                            *)
(*                                                                         *)
(* Python lists are objects: a grid is an outer list whose items are row   *)
(* lists.  The heap maps the address of every live list to its items, so   *)
(* that two references to the same list are one heap cell.  A Matrix is    *)
(* its single field `data`, the address of an outer list.                  *)
(* Python indices are 0-based, sequences here are 1-based: data[i][j] of   *)
(* the source is d[i + 1][j + 1].  Matrix entries are Python ints: they    *)
(* are unbounded, so no width is modelled.                                 *)
(*                                                                         *)
(* heap, mats and out are the caller's lists, its two Matrix variables and *)
(* the outcome of its latest call; a call is one step.  det is one call of *)
(* matrix_determinant taken apart into the steps of its recursion: the     *)
(* frames of the calls in progress and the position of the innermost one.  *)
(***************************************************************************)
EXTENDS Integers, Sequences, FiniteSets, TLC

VARIABLES heap, mats, out, det

vars == <<heap, mats, out, det>>

\* ---------------------------------------------------------------- bounds
\* Largest number of rows and of columns of a grid the caller builds.
MaxDim == 3
\* Largest number of entries the caller's live grids hold together.
MaxCells == 9
\* Largest size of the square grids whose determinant is followed call by
\* call.
MaxDetDim == 4
\* The entries the caller writes into grids, and the scalars it passes.
Vals == {0, 1}
Scalars == {-1, 0, 2}
\* Indices and sizes the caller passes: below, inside and above the range.
Indexes == -1 .. MaxDim
Sizes == -1 .. MaxDim

\* The caller's two matrix variables.
Slots == {"a", "b"}

\* ------------------------------------------------------ python primitives
NULL == <<"null", 0>>

NoExc == [type |-> "none", msg |-> ""]
ValueError(m) == [type |-> "ValueError", msg |-> m]
IndexError(m) == [type |-> "IndexError", msg |-> m]

\* The outcome of a call: the exception raised (NoExc: none), the Matrix
\* returned (the address of its data, NULL: none), the number returned, and
\* the heap the call leaves.
Raise(e, h) == [exc |-> e, ret |-> NULL, val |-> 0, heap |-> h]
ReturnMatrix(d, h) == [exc |-> NoExc, ret |-> d, val |-> 0, heap |-> h]
ReturnValue(v, h) == [exc |-> NoExc, ret |-> NULL, val |-> v, heap |-> h]

Max(x, y) == IF x >= y THEN x ELSE y

\* sum(iterable): starts from 0 and adds the items from left to right.
RECURSIVE SumFrom(_, _)
SumFrom(acc, s) ==
    IF Len(s) = 0 THEN acc ELSE SumFrom(acc + Head(s), Tail(s))

sum(s) == SumFrom(0, s)

\* ------------------------------------------------------------------ heap
\* Addresses are <<region, k>>: the outer list of a grid allocated in a
\* region is <<region, 0>> and its row lists are <<region, 1>>, ...
\* Regions: "a", "b" (the grids the caller builds for its two variables),
\* "out" (the lists a call allocates for its result), "tmp" (the lists of an
\* intermediate result).
Free(h, r) == [x \in {y \in DOMAIN h : y[1] # r} |-> h[x]]

\* [[...], ...]: a list literal or comprehension allocates a fresh outer list
\* and a fresh list per row.
ListNew(h, r, grid) ==
    LET keep == {y \in DOMAIN h : y[1] # r}
        new == {<<r, k>> : k \in 0 .. Len(grid)}
    IN [x \in keep \cup new |->
          IF x \in keep THEN h[x]
          ELSE IF x[2] = 0 THEN [k \in 1 .. Len(grid) |-> <<r, k>>]
          ELSE grid[x[2]]]

\* The grid a data reference denotes: the rows' items, row by row.
data(h, d) == [i \in 1 .. Len(h[d]) |-> h[h[d][i]]]

\* ------------------------------------------------------- models.py Matrix
rows(self) == Len(self)

cols(self) == IF Len(self) # 0 THEN Len(self[1]) ELSE 0

\* post_init with the row test off by a comparison: only longer rows fail.
post_init_longer_only(self) ==
    IF Len(self) = 0 THEN ValueError("Matrix cannot be empty")
    ELSE LET first_row_length == Len(self[1])
         IN IF \E i \in 1 .. Len(self) : Len(self[i]) > first_row_length
            THEN ValueError("All rows must have the same length")
            ELSE NoExc

post_init(self) ==
    IF Len(self) = 0 THEN ValueError("Matrix cannot be empty")
    ELSE LET first_row_length == Len(self[1])
         IN IF \E i \in 1 .. Len(self) : Len(self[i]) # first_row_length
            THEN ValueError("All rows must have the same length")
            ELSE NoExc

\* Matrix(d): the dataclass stores the reference d itself in the field data,
\* then __post_init__ validates it.
Matrix(h, d) ==
    LET e == post_init(data(h, d))
    IN IF e # NoExc THEN Raise(e, h) ELSE ReturnMatrix(d, h)

\* get_element without the lower bound on col: a negative col then indexes
\* the row from its end, as Python lists do.
get_element_no_lower_bound(h, m, row, col) ==
    LET self == data(h, m)
    IN IF ~(0 <= row /\ row < rows(self))
       THEN Raise(IndexError("Row index out of bounds"), h)
       ELSE IF ~(col < cols(self))
       THEN Raise(IndexError("Column index out of bounds"), h)
       ELSE IF col < 0 /\ cols(self) + col < 0
       THEN Raise(IndexError("list index out of range"), h)
       ELSE ReturnValue(self[row + 1][(IF col < 0 THEN cols(self) + col ELSE col) + 1], h)

get_element(h, m, row, col) ==
    LET self == data(h, m)
    IN IF ~(0 <= row /\ row < rows(self))
       THEN Raise(IndexError("Row index out of bounds"), h)
       ELSE IF ~(0 <= col /\ col < cols(self))
       THEN Raise(IndexError("Column index out of bounds"), h)
       ELSE ReturnValue(self[row + 1][col + 1], h)

transpose(h, m, r) ==
    LET self == data(h, m)
        transposed_data ==
            [i \in 1 .. cols(self) |-> [j \in 1 .. rows(self) |-> self[j][i]]]
    IN Matrix(ListNew(h, r, transposed_data), <<r, 0>>)

\* __add__ raising only when both dimensions differ; reading other.data past
\* its end raises Python's IndexError.
add_both_differ(h, m, o, r) ==
    LET self == data(h, m)
        other == data(h, o)
    IN IF rows(self) # rows(other) /\ cols(self) # cols(other)
       THEN Raise(ValueError("Cannot add matrices of different sizes"), h)
       ELSE IF rows(self) > rows(other) \/ cols(self) > cols(other)
       THEN Raise(IndexError("list index out of range"), h)
       ELSE LET result_data ==
                    [i \in 1 .. rows(self) |->
                       [j \in 1 .. cols(self) |-> self[i][j] + other[i][j]]]
            IN Matrix(ListNew(h, r, result_data), <<r, 0>>)

\* __add__ accumulating into self (self.data[i][j] += other.data[i][j]) and
\* returning self.
add_in_place(h, m, o, r) ==
    LET self == data(h, m)
        other == data(h, o)
    IN IF rows(self) # rows(other) \/ cols(self) # cols(other)
       THEN Raise(ValueError("Cannot add matrices of different sizes"), h)
       ELSE LET row_of(x) == CHOOSE i \in 1 .. rows(self) : h[m][i] = x
                written ==
                    [x \in DOMAIN h |->
                       IF \E i \in 1 .. rows(self) : h[m][i] = x
                       THEN [j \in 1 .. cols(self) |->
                               self[row_of(x)][j] + other[row_of(x)][j]]
                       ELSE h[x]]
            IN ReturnMatrix(m, written)

add(h, m, o, r) ==
    LET self == data(h, m)
        other == data(h, o)
    IN IF rows(self) # rows(other) \/ cols(self) # cols(other)
       THEN Raise(ValueError("Cannot add matrices of different sizes"), h)
       ELSE LET result_data ==
                    [i \in 1 .. rows(self) |->
                       [j \in 1 .. cols(self) |-> self[i][j] + other[i][j]]]
            IN Matrix(ListNew(h, r, result_data), <<r, 0>>)

\* __mul__ adding the scalar to each element instead of multiplying by it.
mul_adds_scalar(h, m, scalar, r) ==
    LET self == data(h, m)
        result_data ==
            [i \in 1 .. rows(self) |->
               [j \in 1 .. cols(self) |-> self[i][j] + scalar]]
    IN Matrix(ListNew(h, r, result_data), <<r, 0>>)

mul(h, m, scalar, r) ==
    LET self == data(h, m)
        result_data ==
            [i \in 1 .. rows(self) |->
               [j \in 1 .. cols(self) |-> self[i][j] * scalar]]
    IN Matrix(ListNew(h, r, result_data), <<r, 0>>)

rmul(h, m, scalar, r) == mul(h, m, scalar, r)

\* ----------------------------------------------------------- functions.py
\* multiply_matrices summing over range(cols - 1): the last product is lost.
multiply_matrices_short_sum(h, m1, m2, r) ==
    LET matrix1 == data(h, m1)
        matrix2 == data(h, m2)
    IN IF cols(matrix1) # rows(matrix2)
       THEN Raise(ValueError("Cannot multiply matrices"), h)
       ELSE LET element(i, j) ==
                    sum([k \in 1 .. (cols(matrix1) - 1) |->
                           matrix1[i][k] * matrix2[k][j]])
                result_data ==
                    [i \in 1 .. rows(matrix1) |->
                       [j \in 1 .. cols(matrix2) |-> element(i, j)]]
            IN Matrix(ListNew(h, r, result_data), <<r, 0>>)

multiply_matrices(h, m1, m2, r) ==
    LET matrix1 == data(h, m1)
        matrix2 == data(h, m2)
    IN IF cols(matrix1) # rows(matrix2)
       THEN Raise(ValueError("Cannot multiply matrices"), h)
       ELSE LET element(i, j) ==
                    sum([k \in 1 .. cols(matrix1) |->
                           matrix1[i][k] * matrix2[k][j]])
                result_data ==
                    [i \in 1 .. rows(matrix1) |->
                       [j \in 1 .. cols(matrix2) |-> element(i, j)]]
            IN Matrix(ListNew(h, r, result_data), <<r, 0>>)

\* create_identity_matrix with the size test off by one.
create_identity_matrix_off_by_one(h, size, r) ==
    IF size <= 1
    THEN Raise(ValueError("Matrix size must be at least 1"), h)
    ELSE LET data_ ==
                 [i \in 1 .. size |->
                    [j \in 1 .. size |-> IF i = j THEN 1 ELSE 0]]
         IN Matrix(ListNew(h, r, data_), <<r, 0>>)

create_identity_matrix(h, size, r) ==
    IF size < 1
    THEN Raise(ValueError("Matrix size must be at least 1"), h)
    ELSE LET data_ ==
                 [i \in 1 .. size |->
                    [j \in 1 .. size |-> IF i = j THEN 1 ELSE 0]]
         IN Matrix(ListNew(h, r, data_), <<r, 0>>)

\* row of the submatrix: the items of a row whose index j differs from col.
minor_row(row, col) ==
    [k \in 1 .. (Len(row) - 1) |-> IF k < col + 1 THEN row[k] ELSE row[k + 1]]

\* submatrix_data looping over range(matrix.rows): the first row stays.
submatrix_data_from_row_0(matrix, col) ==
    [i \in 1 .. rows(matrix) |-> minor_row(matrix[i], col)]

\* submatrix_data: rows 1 .. rows-1 of the matrix, each without column col.
submatrix_data(matrix, col) ==
    [i \in 1 .. (rows(matrix) - 1) |-> minor_row(matrix[i + 1], col)]

\* The cofactors added without alternating signs.
alternate_never(determinant, col, cofactor) == determinant + cofactor

\* +cofactor for an even col, -cofactor for an odd one.
alternate(determinant, col, cofactor) ==
    IF col % 2 = 0 THEN determinant + cofactor ELSE determinant - cofactor

\* matrix_determinant on the grid of its argument.  The submatrices it
\* builds are temporaries that never leave the call, so they are values here;
\* Matrix(submatrix_data) still validates them.  The result is
\* [exc, val, depth]: depth counts the nested calls below this one.
RECURSIVE determinant(_)
RECURSIVE laplace(_, _, _, _)
determinant(matrix) ==
    IF rows(matrix) # cols(matrix)
    THEN [exc |-> ValueError("Determinant can only be calculated for square matrices"),
          val |-> 0, depth |-> 0]
    ELSE IF rows(matrix) = 1
    THEN [exc |-> NoExc, val |-> matrix[1][1], depth |-> 0]
    ELSE IF rows(matrix) = 2
    THEN [exc |-> NoExc,
          val |-> matrix[1][1] * matrix[2][2] - matrix[1][2] * matrix[2][1],
          depth |-> 0]
    ELSE laplace(matrix, 0, 0, 0)

\* The for loop of the recursive case, from column col on.
laplace(matrix, col, acc, depth) ==
    IF col >= cols(matrix)
    THEN [exc |-> NoExc, val |-> acc, depth |-> depth]
    ELSE LET sub == submatrix_data(matrix, col)
             e == post_init(sub)
         IN IF e # NoExc
            THEN [exc |-> e, val |-> 0, depth |-> depth]
            ELSE LET d == determinant(sub)
                 IN IF d.exc # NoExc
                    THEN [exc |-> d.exc, val |-> 0, depth |-> depth]
                    ELSE laplace(matrix, col + 1,
                                 alternate(acc, col, matrix[1][col + 1] * d.val),
                                 Max(depth, d.depth + 1))

matrix_determinant(h, m) ==
    LET d == determinant(data(h, m))
    IN IF d.exc # NoExc THEN Raise(d.exc, h) ELSE ReturnValue(d.val, h)

\* matrix_trace reading matrix.data[0][i]: it sums the first row.
matrix_trace_first_row(h, m) ==
    LET matrix == data(h, m)
    IN IF rows(matrix) # cols(matrix)
       THEN Raise(ValueError("Trace can only be calculated for square matrices"), h)
       ELSE ReturnValue(sum([i \in 1 .. rows(matrix) |-> matrix[1][i]]), h)

matrix_trace(h, m) ==
    LET matrix == data(h, m)
    IN IF rows(matrix) # cols(matrix)
       THEN Raise(ValueError("Trace can only be calculated for square matrices"), h)
       ELSE ReturnValue(sum([i \in 1 .. rows(matrix) |-> matrix[i][i]]), h)

\* ------------------------------------------------------------ the caller
\* The caller (main.py, the tests) builds grids, constructs matrices from
\* them into its variables a and b, and calls the operations; `out` is the
\* outcome of its latest call.

\* Shapes of the rectangular grids the caller builds: r rows of c columns.
\* A grid without columns still takes one cell per row of the budget.
ShapeCost(s) == s[1] * Max(s[2], 1)

RectShapes == {s \in (1 .. MaxDim) \X (0 .. MaxDim) : ShapeCost(s) <= MaxCells}

GridsOf(s) == [1 .. s[1] -> [1 .. s[2] -> Vals]]

RectGrids == UNION {GridsOf(s) : s \in RectShapes}

Cost(g) == sum([i \in 1 .. Len(g) |-> Max(Len(g[i]), 1)])

\* Grids whose rows differ in length; __post_init__ reads only the lengths,
\* so their entries are all 0.
RaggedGrids ==
    {g \in UNION {{[i \in 1 .. r |-> [j \in 1 .. lens[i] |-> 0]] :
                      lens \in [1 .. r -> 0 .. MaxDim]} : r \in 2 .. MaxDim} :
        /\ \E i \in 1 .. Len(g) : Len(g[i]) # Len(g[1])
        /\ Cost(g) <= MaxCells}

Grids == RectGrids \cup RaggedGrids \cup {<<>>}

\* Rows the caller may append to a grid it built.
RowValues == UNION {[1 .. n -> Vals] : n \in 0 .. MaxDim}

Outcome(op, slot, res, x, y) ==
    [op |-> op, slot |-> slot, exc |-> res.exc, ret |-> res.ret,
     val |-> res.val, x |-> x, y |-> y]

\* The caller keeps the returned Matrix, if any; intermediate lists and the
\* lists of a rejected result are garbage.
Finish(op, res, x, y) ==
    /\ heap' = (IF res.ret = NULL
                THEN Free(Free(res.heap, "tmp"), "out")
                ELSE Free(res.heap, "tmp"))
    /\ out' = Outcome(op, "a", res, x, y)
    /\ UNCHANGED <<mats, det>>

\* No call of matrix_determinant is being followed.
DetIdle ==
    [pc |-> "idle", top |-> << >>, stack |-> << >>, arg |-> << >>,
     ret |-> 0, exc |-> NoExc]

Init ==
    /\ heap = << >>
    /\ mats = [s \in Slots |-> NULL]
    /\ out = Outcome("init", "a", ReturnValue(0, << >>), 0, 0)
    /\ det = DetIdle

\* The caller is between two statements: it has constructed what it needs,
\* or it is done with the outcome of its latest call (Drop).  A construction
\* that raises ends the run.
Arranged ==
    \/ out.op = "init"
    \/ out.op = "Matrix" /\ out.exc = NoExc
    \/ out.op = "del"

\* s = Matrix(g): the caller builds the grid g and constructs a Matrix from
\* it.
Construct(s, g) ==
    LET res == Matrix(ListNew(heap, s, g), <<s, 0>>)
    IN /\ heap' = res.heap
       /\ mats' = [mats EXCEPT ![s] = res.ret]
       /\ out' = Outcome("Matrix", s, res, 0, 0)
       /\ UNCHANGED det

\* a = Matrix(g), for any grid.
ConstructA ==
    /\ Arranged
    /\ mats["a"] = NULL
    /\ \E g \in Grids : Construct("a", g)

\* b = Matrix(g), once a is constructed, for the rectangular grids that fit
\* beside a.
ConstructB ==
    /\ Arranged
    /\ mats["a"] # NULL
    /\ mats["b"] = NULL
    /\ \E s \in RectShapes :
          /\ ShapeCost(s) + Cost(data(heap, mats["a"])) <= MaxCells
          /\ \E g \in GridsOf(s) : Construct("b", g)

\* Calls on one matrix: the caller makes them while it holds only a.
One == Arranged /\ mats["a"] # NULL /\ mats["b"] = NULL

\* Calls on two matrices.
Two == Arranged /\ mats["a"] # NULL /\ mats["b"] # NULL

GetElement(row, col) ==
    /\ One
    /\ Finish("get_element",
              get_element(heap, mats["a"], row, col), row, col)

Transpose ==
    /\ One
    /\ Finish("transpose", transpose(heap, mats["a"], "out"), 0, 0)

\* m.transpose().transpose()
TransposeTwice ==
    /\ One
    /\ LET first == transpose(heap, mats["a"], "tmp")
       IN Finish("transpose_twice",
                 IF first.exc # NoExc THEN first
                 ELSE transpose(first.heap, first.ret, "out"), 0, 0)

Add ==
    /\ Two
    /\ Finish("add", add(heap, mats["a"], mats["b"], "out"), 0, 0)

Mul(scalar) ==
    /\ One
    /\ Finish("mul", mul(heap, mats["a"], scalar, "out"), scalar, 0)

RMul(scalar) ==
    /\ One
    /\ Finish("rmul", rmul(heap, mats["a"], scalar, "out"), scalar, 0)

Multiply ==
    /\ Two
    /\ Finish("multiply_matrices",
              multiply_matrices(heap, mats["a"], mats["b"], "out"), 0, 0)

Identity(size) ==
    /\ Arranged
    /\ mats["b"] = NULL
    /\ Finish("create_identity_matrix",
              create_identity_matrix(heap, size, "out"), size, 0)

\* multiply_matrices(create_identity_matrix(m.rows), m)
IdentityLeft ==
    /\ One
    /\ LET h == heap
           identity == create_identity_matrix(h, rows(data(h, mats["a"])), "tmp")
       IN Finish("identity_left",
                 IF identity.exc # NoExc THEN identity
                 ELSE multiply_matrices(identity.heap, identity.ret, mats["a"], "out"),
                 0, 0)

\* multiply_matrices(m, create_identity_matrix(m.cols))
IdentityRight ==
    /\ One
    /\ LET h == heap
           identity == create_identity_matrix(h, cols(data(h, mats["a"])), "tmp")
       IN Finish("identity_right",
                 IF identity.exc # NoExc THEN identity
                 ELSE multiply_matrices(identity.heap, mats["a"], identity.ret, "out"),
                 0, 0)

Determinant ==
    /\ One
    /\ Finish("matrix_determinant",
              matrix_determinant(heap, mats["a"]), 0, 0)

Trace ==
    /\ One
    /\ Finish("matrix_trace", matrix_trace(heap, mats["a"]), 0, 0)

\* The operations on a Matrix and the functions that take one.
Calls ==
    {"get_element", "transpose", "transpose_twice", "add", "mul", "rmul",
     "multiply_matrices", "create_identity_matrix", "identity_left",
     "identity_right", "matrix_determinant", "matrix_trace"}

\* result.data[i][j] = v: the field data of a returned Matrix is a list like
\* any other, and the caller may write to it.
ResultSetItem(i, j, v) ==
    /\ out.op \in Calls
    /\ out.ret # NULL
    /\ i \in 1 .. Len(heap[out.ret])
    /\ j \in 1 .. Len(heap[heap[out.ret][i]])
    /\ heap[heap[out.ret][i]][j] # v
    /\ heap' = [heap EXCEPT ![heap[out.ret][i]] = [@ EXCEPT ![j] = v]]
    /\ out' = Outcome("setitem", "a", ReturnMatrix(out.ret, heap'), 0, 0)
    /\ UNCHANGED <<mats, det>>

\* The caller is done with the outcome of its latest call, a caught
\* exception included, and goes on to its next statement; the lists of the
\* result are garbage.
Drop ==
    /\ out.op \in Calls \cup {"setitem"}
    /\ heap' = Free(heap, "out")
    /\ out' = Outcome("del", "a", ReturnValue(0, << >>), 0, 0)
    /\ UNCHANGED <<mats, det>>

Next ==
    \/ ConstructA
    \/ ConstructB
    \/ \E row \in Indexes, col \in Indexes : GetElement(row, col)
    \/ Transpose
    \/ TransposeTwice
    \/ Add
    \/ \E scalar \in Scalars : Mul(scalar)
    \/ \E scalar \in Scalars : RMul(scalar)
    \/ Multiply
    \/ \E size \in Sizes : Identity(size)
    \/ IdentityLeft
    \/ IdentityRight
    \/ Determinant
    \/ Trace
    \/ \E i \in 1 .. MaxDim, j \in 1 .. MaxDim, v \in Vals : ResultSetItem(i, j, v)
    \/ Drop

Spec == Init /\ [][Next]_vars

\* ------------------------------------------------- the caller's own grid
\* Matrix(g) stores the caller's list g, and the caller still holds g: these
\* are the statements a caller may run on its grid after a = Matrix(g).
CallerOutcome == Outcome("caller", "a", ReturnValue(0, << >>), 0, 0)

Accepted == mats["a"] # NULL /\ out.op \in {"Matrix", "caller"}

\* g[i][j] = v
CallerSetItem(i, j, v) ==
    /\ Accepted
    /\ i \in 1 .. Len(heap[<<"a", 0>>])
    /\ j \in 1 .. Len(heap[heap[<<"a", 0>>][i]])
    /\ heap[heap[<<"a", 0>>][i]][j] # v
    /\ heap' = [heap EXCEPT ![heap[<<"a", 0>>][i]] = [@ EXCEPT ![j] = v]]
    /\ out' = CallerOutcome
    /\ UNCHANGED <<mats, det>>

\* g.append(row): row is a fresh list, at the first free address.
CallerAppendRow(row) ==
    /\ Accepted
    /\ Len(heap[<<"a", 0>>]) < MaxDim
    /\ LET k == CHOOSE n \in 1 .. MaxDim :
                   /\ <<"a", n>> \notin DOMAIN heap
                   /\ \A l \in 1 .. (n - 1) : <<"a", l>> \in DOMAIN heap
           new == <<"a", k>>
       IN heap' = [x \in DOMAIN heap \cup {new} |->
                     IF x = new THEN row
                     ELSE IF x = <<"a", 0>> THEN Append(heap[x], new)
                     ELSE heap[x]]
    /\ out' = CallerOutcome
    /\ UNCHANGED <<mats, det>>

\* g.pop(): the last row leaves the grid and is garbage.
CallerPopRow ==
    /\ Accepted
    /\ Len(heap[<<"a", 0>>]) > 0
    /\ LET outer == heap[<<"a", 0>>]
           last == outer[Len(outer)]
       IN heap' = [x \in DOMAIN heap \ {last} |->
                     IF x = <<"a", 0>> THEN SubSeq(outer, 1, Len(outer) - 1)
                     ELSE heap[x]]
    /\ out' = CallerOutcome
    /\ UNCHANGED <<mats, det>>

NextCaller ==
    \/ ConstructA
    \/ \E i \in 1 .. MaxDim, j \in 1 .. MaxDim, v \in Vals : CallerSetItem(i, j, v)
    \/ \E row \in RowValues : CallerAppendRow(row)
    \/ CallerPopRow

SpecCaller == Init /\ [][NextCaller]_vars

\* ------------------------------------- matrix_determinant, call by call
\* det.stack holds a frame per call that is inside its loop: its argument,
\* its loop variable col and its local determinant.  det.arg is the argument
\* of the call being entered, det.ret the value the latest call returned,
\* det.top the caller's argument.  det.pc is the position of the innermost
\* call: "call" (entering), "loop" (at the head of the for loop), "return"
\* (a call has returned to its caller), "done" (the outermost call has
\* returned), "raised" (an exception left the outermost call; det.stack is
\* then the traceback).
\*
\* The grids of the matrices the caller passes: every rectangular grid it
\* builds, and the square grids up to MaxDetDim with one value on the
\* diagonal and one value off it.
DetGrids ==
    RectGrids \cup
    {[i \in 1 .. n |-> [j \in 1 .. n |-> IF i = j THEN vs[1] ELSE vs[2]]] :
        n \in 1 .. MaxDetDim, vs \in Scalars \X Scalars}

Frame(matrix) == [matrix |-> matrix, col |-> 0, determinant |-> 0]

\* matrix_determinant(Matrix(g))
DetStart(g) ==
    /\ det.pc = "idle"
    /\ post_init(g) = NoExc
    /\ det' = [DetIdle EXCEPT !.pc = "call", !.top = g, !.arg = g]
    /\ UNCHANGED <<heap, mats, out>>

\* A call is entered: the squareness check, the two base cases, or the
\* start of the loop.
DetCall ==
    /\ det.pc = "call"
    /\ LET matrix == det.arg
       IN det' =
            IF rows(matrix) # cols(matrix)
            THEN [det EXCEPT
                    !.pc = "raised",
                    !.exc = ValueError("Determinant can only be calculated for square matrices")]
            ELSE IF rows(matrix) = 1
            THEN [det EXCEPT !.pc = "return", !.ret = matrix[1][1]]
            ELSE IF rows(matrix) = 2
            THEN [det EXCEPT
                    !.pc = "return",
                    !.ret = matrix[1][1] * matrix[2][2] - matrix[1][2] * matrix[2][1]]
            ELSE [det EXCEPT !.pc = "loop", !.stack = Append(@, Frame(matrix))]
    /\ UNCHANGED <<heap, mats, out>>

\* The head of the for loop of the innermost call: after the last column
\* the call returns its determinant; otherwise it builds the submatrix of
\* the column, constructs a Matrix from it and calls itself on that.
DetLoop ==
    /\ det.pc = "loop"
    /\ LET frame == det.stack[Len(det.stack)]
           sub == submatrix_data(frame.matrix, frame.col)
       IN det' =
            IF frame.col >= cols(frame.matrix)
            THEN [det EXCEPT
                    !.pc = "return",
                    !.ret = frame.determinant,
                    !.stack = SubSeq(@, 1, Len(@) - 1)]
            ELSE IF post_init(sub) # NoExc
            THEN [det EXCEPT !.pc = "raised", !.exc = post_init(sub)]
            ELSE [det EXCEPT !.pc = "call", !.arg = sub]
    /\ UNCHANGED <<heap, mats, out>>

\* A call has returned: the outermost one to the caller, a recursive one
\* into the loop body of its caller, which adds or subtracts the cofactor
\* and moves to the next column.
DetReturn ==
    /\ det.pc = "return"
    /\ det' =
         IF Len(det.stack) = 0
         THEN [det EXCEPT !.pc = "done"]
         ELSE LET frame == det.stack[Len(det.stack)]
                  cofactor == frame.matrix[1][frame.col + 1] * det.ret
              IN [det EXCEPT
                    !.pc = "loop",
                    !.stack[Len(det.stack)] =
                        [frame EXCEPT
                           !.determinant = alternate(@, frame.col, cofactor),
                           !.col = @ + 1]]
    /\ UNCHANGED <<heap, mats, out>>

NextDet ==
    \/ \E g \in DetGrids : DetStart(g)
    \/ DetCall
    \/ DetLoop
    \/ DetReturn

\* The interpreter runs a call to its end: a step that can be taken is
\* taken.
SpecDet == Init /\ [][NextDet]_vars /\ WF_vars(NextDet)

\* ================================================================ claims
\* The grids of the caller's matrices.
A == data(heap, mats["a"])

B == data(heap, mats["b"])

\* The grid of the Matrix the latest call returned.
R == data(heap, out.ret)

Failed == out.exc # NoExc

Rectangular(g, r, c) == Len(g) = r /\ \A i \in 1 .. r : Len(g[i]) = c

\* C1: constructing a Matrix from a grid fails with a shape error (ValueError)
\* exactly when the grid has no rows or some row's length differs from the
\* first row's; for every other grid it succeeds and the Matrix reports
\* rows = the grid's number of rows and cols = the length of its first row.
C1_ConstructionChecksShape ==
    out.op = "Matrix" =>
        LET g == data(heap, <<out.slot, 0>>)
            bad == Len(g) = 0 \/ \E i \in 1 .. Len(g) : Len(g[i]) # Len(g[1])
        IN /\ Failed <=> bad
           /\ bad => /\ out.exc.type = "ValueError"
                     /\ mats[out.slot] = NULL
           /\ ~bad => /\ mats[out.slot] # NULL
                      /\ rows(data(heap, mats[out.slot])) = Len(g)
                      /\ cols(data(heap, mats[out.slot])) = Len(g[1])

\* A grid of three rows whose third row alone is shorter is rejected.
C1_Witness ==
    /\ out.op = "Matrix"
    /\ out.exc = ValueError("All rows must have the same length")
    /\ LET g == data(heap, <<"a", 0>>)
       IN Len(g) = 3 /\ Len(g[1]) = 2 /\ Len(g[2]) = 2 /\ Len(g[3]) = 1

\* C2: once constructed, a Matrix never changes, whatever the caller does
\* with the grid it supplied: from one state to the next the Matrix keeps at
\* least one row, rows of one length, and the elements it was validated with.
C2_MatrixNeverChanges ==
    [][(mats["a"] # NULL /\ mats'["a"] = mats["a"]) =>
          /\ data(heap', mats'["a"]) = data(heap, mats["a"])
          /\ post_init(data(heap', mats'["a"])) = NoExc]_vars

\* sum over k in [1, n] of a[i][k] * b[k][j]
RECURSIVE Dot(_, _, _, _, _)
Dot(a, b, i, j, n) ==
    IF n = 0 THEN 0 ELSE Dot(a, b, i, j, n - 1) + a[i][n] * b[n][j]

\* C3: multiply(a, b) fails with a shape error (ValueError) exactly when
\* a.cols # b.rows; otherwise it returns a Matrix of shape (a.rows, b.cols)
\* whose element [i][j] is the sum over k of a[i][k] * b[k][j].
C3_MultiplyIsRowByColumn ==
    out.op = "multiply_matrices" =>
        /\ Failed <=> cols(A) # rows(B)
        /\ Failed => out.exc.type = "ValueError" /\ out.ret = NULL
        /\ ~Failed =>
              /\ Rectangular(R, rows(A), cols(B))
              /\ \A i \in 1 .. rows(A), j \in 1 .. cols(B) :
                    R[i][j] = Dot(A, B, i, j, cols(A))

\* A 2x2 by 2x2 product with an element that sums two non-zero products.
C3_Witness ==
    /\ out.op = "multiply_matrices"
    /\ ~Failed
    /\ rows(A) = 2 /\ cols(A) = 2 /\ cols(B) = 2
    /\ R[2][1] = 2 /\ R[1][2] = 0

\* The permutations of 1 .. n, the sign of one, and the product it selects.
Perms(n) ==
    {p \in [1 .. n -> 1 .. n] : \A i, j \in 1 .. n : i # j => p[i] # p[j]}

Sign(p, n) ==
    IF Cardinality({ij \in (1 .. n) \X (1 .. n) :
                      ij[1] < ij[2] /\ p[ij[1]] > p[ij[2]]}) % 2 = 0
    THEN 1 ELSE -1

RECURSIVE Along(_, _, _)
Along(g, p, k) == IF k = 0 THEN 1 ELSE Along(g, p, k - 1) * g[k][p[k]]

RECURSIVE LeibnizSum(_, _)
LeibnizSum(g, P) ==
    IF P = {} THEN 0
    ELSE LET p == CHOOSE q \in P : TRUE
         IN Sign(p, Len(g)) * Along(g, p, Len(g)) + LeibnizSum(g, P \ {p})

\* The standard determinant: the sum over the permutations.
Leibniz(g) == LeibnizSum(g, Perms(Len(g)))

\* g without its first row and without column col (0-based).
MinorOf(g, col) ==
    [i \in 1 .. (Len(g) - 1) |->
       [j \in 1 .. (Len(g) - 1) |-> g[i + 1][IF j <= col THEN j ELSE j + 1]]]

\* sum over col in [0, n) of (-1)^col * g[0][col] * det(minor(col))
RECURSIVE FirstRowExpansion(_, _)
FirstRowExpansion(g, n) ==
    IF n = 0 THEN 0
    ELSE FirstRowExpansion(g, n - 1)
         + (IF (n - 1) % 2 = 0 THEN 1 ELSE -1) * g[1][n] * Leibniz(MinorOf(g, n - 1))

\* C4: determinant(m) fails with a shape error (ValueError) for every
\* non-square Matrix; for a square n x n Matrix it returns the single
\* element (n = 1), a*d - b*c (n = 2), the first-row cofactor expansion with
\* signs (-1)^col (n >= 3), and in every case the permutation-sum determinant.
C4_DeterminantIsCofactorExpansion ==
    out.op = "matrix_determinant" =>
        /\ Failed <=> rows(A) # cols(A)
        /\ Failed => out.exc.type = "ValueError"
        /\ ~Failed =>
              /\ out.val = Leibniz(A)
              /\ rows(A) = 1 => out.val = A[1][1]
              /\ rows(A) = 2 => out.val = A[1][1] * A[2][2] - A[1][2] * A[2][1]
              /\ rows(A) >= 3 => out.val = FirstRowExpansion(A, rows(A))

\* A 3x3 determinant that is negative because of its odd column.
C4_Witness ==
    /\ out.op = "matrix_determinant"
    /\ ~Failed
    /\ rows(A) = 3
    /\ A[1][2] = 1
    /\ out.val = -2

\* C5: transpose() succeeds for every Matrix that passed construction and
\* returns a Matrix of shape (cols, rows) with result[i][j] = self[j][i].
C5_TransposeAlwaysSucceeds ==
    out.op = "transpose" =>
        /\ ~Failed
        /\ Rectangular(R, cols(A), rows(A))
        /\ \A i \in 1 .. cols(A), j \in 1 .. rows(A) : R[i][j] = A[j][i]

\* C6: m.transpose().transpose() equals m in shape and in every element, for
\* every Matrix that passed construction.
C6_TransposeIsInvolution ==
    out.op = "transpose_twice" =>
        /\ ~Failed
        /\ rows(R) = rows(A) /\ cols(R) = cols(A)
        /\ \A i \in 1 .. rows(A), j \in 1 .. cols(A) : R[i][j] = A[i][j]

\* C7: for every Matrix m that passed construction, both
\* multiply(identity(m.rows), m) and multiply(m, identity(m.cols)) succeed
\* and return a Matrix element-wise equal to m.
C7_IdentityIsTwoSided ==
    out.op \in {"identity_left", "identity_right"} =>
        /\ ~Failed
        /\ Rectangular(R, rows(A), cols(A))
        /\ \A i \in 1 .. rows(A), j \in 1 .. cols(A) : R[i][j] = A[i][j]

\* C8: identity(size) fails with the invalid-size error and returns no
\* Matrix for every size <= 0; for every size >= 1 it returns a size x size
\* Matrix with 1 on the diagonal and 0 elsewhere.
C8_IdentityChecksSize ==
    out.op = "create_identity_matrix" =>
        /\ out.x <= 0 => /\ out.exc = ValueError("Matrix size must be at least 1")
                         /\ out.ret = NULL
        /\ out.x >= 1 => /\ ~Failed
                         /\ Rectangular(R, out.x, out.x)
                         /\ \A i \in 1 .. out.x, j \in 1 .. out.x :
                               R[i][j] = (IF i = j THEN 1 ELSE 0)

\* identity(0) is refused.
C8_Witness ==
    /\ out.op = "create_identity_matrix"
    /\ out.x = 0
    /\ out.exc = ValueError("Matrix size must be at least 1")

\* C9: element(row, col) returns the stored value when 0 <= row < rows and
\* 0 <= col < cols, and fails with an index error for every other pair of
\* indices, negative ones and pairs with one index in range included.
C9_ElementChecksBothIndices ==
    out.op = "get_element" =>
        LET row == out.x
            col == out.y
            inside == 0 <= row /\ row < rows(A) /\ 0 <= col /\ col < cols(A)
        IN /\ inside => ~Failed /\ out.val = A[row + 1][col + 1]
           /\ ~inside => out.exc.type = "IndexError"

\* The row is in range and the column alone is negative.
C9_Witness ==
    /\ out.op = "get_element"
    /\ out.x = 1 /\ rows(A) = 2 /\ cols(A) = 2
    /\ out.y = -1
    /\ out.exc.type = "IndexError"

\* C10: add(other) fails with a shape error (ValueError) exactly when the
\* operands differ in rows or in cols; otherwise it returns a Matrix of their
\* shape whose element [i][j] is self[i][j] + other[i][j].
C10_AddChecksShape ==
    out.op = "add" =>
        /\ Failed <=> (rows(A) # rows(B) \/ cols(A) # cols(B))
        /\ Failed => out.exc.type = "ValueError" /\ out.ret = NULL
        /\ ~Failed =>
              /\ Rectangular(R, rows(A), cols(A))
              /\ \A i \in 1 .. rows(A), j \in 1 .. cols(A) :
                    R[i][j] = A[i][j] + B[i][j]

\* The operands have the same number of rows and differ in columns only.
C10_Witness ==
    /\ out.op = "add"
    /\ out.exc.type = "ValueError"
    /\ rows(A) = rows(B)
    /\ cols(A) = 2 /\ cols(B) = 1

\* C11: scaling succeeds for every Matrix that passed construction and every
\* scalar, and returns a Matrix of the same shape whose element [i][j] is
\* self[i][j] * scalar; the scalar on the left (scalar * m) and the scalar on
\* the right (m * scalar) give that same Matrix.
C11_ScaleIsElementwiseOnBothSides ==
    out.op \in {"mul", "rmul"} =>
        /\ ~Failed
        /\ Rectangular(R, rows(A), cols(A))
        /\ \A i \in 1 .. rows(A), j \in 1 .. cols(A) :
              R[i][j] = A[i][j] * out.x

\* 2 * m for a 2x3 Matrix with both a zero and a non-zero element.
C11_Witness ==
    /\ out.op = "rmul"
    /\ out.x = 2
    /\ ~Failed
    /\ rows(A) = 2 /\ cols(A) = 3
    /\ R[1][1] = 2 /\ R[2][3] = 0

\* g[0][0] + ... + g[n-1][n-1]
RECURSIVE Diagonal(_, _)
Diagonal(g, n) == IF n = 0 THEN 0 ELSE Diagonal(g, n - 1) + g[n][n]

\* C12: trace(m) fails with a shape error (ValueError) for every non-square
\* Matrix, and for every square Matrix it returns the sum of the diagonal
\* elements m[i][i] for i in [0, rows).
C12_TraceIsDiagonalSum ==
    out.op = "matrix_trace" =>
        /\ Failed <=> rows(A) # cols(A)
        /\ Failed => out.exc.type = "ValueError"
        /\ ~Failed => out.val = Diagonal(A, rows(A))

\* A 3x3 trace of 2 whose first row sums to something else.
C12_Witness ==
    /\ out.op = "matrix_trace"
    /\ ~Failed
    /\ rows(A) = 3
    /\ A[1][1] = 0 /\ A[1][2] = 1 /\ A[1][3] = 0
    /\ out.val = 2

\* The lists a Matrix is stored in: its outer list and its row lists.
Storage(h, d) == {d} \cup {h[d][i] : i \in 1 .. Len(h[d])}

\* C13: no operation mutates its operands and no result aliases an operand:
\* across every step of the caller other than a construction (a call of
\* transpose, add, scale, multiply, determinant, trace or element, successful
\* or failing, alone or after other calls, and a write to the grid of a
\* returned Matrix) each operand is the same Matrix with exactly the grid it
\* had, and the outer list and the rows of a returned Matrix are lists that
\* no operand is stored in.
C13_CallsLeaveOperandsAlone ==
    [][out'.op # "Matrix" =>
          /\ mats' = mats
          /\ \A s \in Slots :
                mats[s] # NULL =>
                   /\ Storage(heap, mats[s]) \subseteq DOMAIN heap'
                   /\ data(heap', mats[s]) = data(heap, mats[s])
                   /\ out'.ret # NULL =>
                         Storage(heap', out'.ret) \cap Storage(heap', mats[s]) = {}]_vars

\* The caller overwrote an element of the sum or product of a and b, and a
\* still has the element it contributed.
C13_Witness ==
    /\ out.op = "setitem"
    /\ mats["a"] # NULL /\ mats["b"] # NULL
    /\ rows(A) = 2 /\ cols(A) = 2
    /\ rows(B) = 2 /\ cols(B) = 2
    /\ A[1][1] = 1 /\ B[1][1] = 1 /\ R[1][1] = 0
    /\ R[2][2] = 2

\* C14: determinant terminates for every square Matrix.  In the n >= 3 case
\* every recursive call is made on a minor that is a valid square Matrix one
\* smaller than the matrix of its caller and at least 2x2, so neither the
\* construction of a minor nor the squareness check of a recursive call
\* raises, and the 2x2 base case is entered n - 2 levels below the outermost
\* call; the outermost call of a square Matrix returns, with the value of
\* the recursion.
C14_MinorsAreSquare ==
    LET n == rows(det.top)
        square == rows(det.top) = cols(det.top)
    IN /\ \A k \in 1 .. Len(det.stack) :
             LET matrix == det.stack[k].matrix
             IN /\ post_init(matrix) = NoExc
                /\ rows(matrix) = cols(matrix)
                /\ rows(matrix) = n - (k - 1)
                /\ rows(matrix) >= 3
       /\ (det.pc = "call" /\ Len(det.stack) > 0) =>
             /\ post_init(det.arg) = NoExc
             /\ rows(det.arg) = cols(det.arg)
             /\ rows(det.arg) = n - Len(det.stack)
             /\ rows(det.arg) >= 2
             /\ rows(det.arg) = 2 => Len(det.stack) = n - 2
       /\ det.pc = "raised" => ~square /\ Len(det.stack) = 0
       /\ det.pc = "done" => square /\ det.ret = determinant(det.top).val

C14_DeterminantTerminates ==
    /\ []C14_MinorsAreSquare
    /\ (det.pc = "call" /\ rows(det.top) = cols(det.top)) ~> det.pc = "done"

\* The 2x2 base case of a 4x4 determinant, two levels below the outermost
\* call, in the last column of both loops.
C14_Witness ==
    /\ det.pc = "call"
    /\ rows(det.top) = 4
    /\ Len(det.stack) = 2
    /\ rows(det.arg) = 2
    /\ det.stack[1].col = 3 /\ det.stack[2].col = 2
    /\ det.top[1][1] = 2

====
